---- MODULE Spec2Model ----
(***************************************************************************)
(* SmartBids (src/src/App.jsx): the document-to-report pipeline.           *)
(*   fetchWithRetry  (lines 138-149)  retrying HTTP call                   *)
(*   processFile     (lines 156-192)  text extraction of one document      *)
(*   incrementUsage  (lines 920-930)  usage counter transaction            *)
(*   handleAnalyze   (lines 932-1009) the pipeline run                     *)
(*   ComplianceRanking (lines 441-461) grouping and ranking of the history  *)
(*   handleRegister, handleLogin, the auth state listener (lines 512-559,  *)
(*                   823-850)         sign-in, sign-out and redirection     *)
(* Five specifications:                                                    *)
(*   SpecFetch    one call of fetchWithRetry, for every maxRetries         *)
(*                argument and every behaviour of the transport;           *)
(*   Spec         the App component of a signed-in session: file           *)
(*                selection, runs of handleAnalyze, the usage tracker      *)
(*                listener, the history page, logout;                      *)
(*   SpecRanking  the history listener and the rendering of the ranking;   *)
(*   SpecExtract  one call of processFile, for every file, library state   *)
(*                and reader event;                                        *)
(*   SpecAuth     the sign-in page: registration, login, the auth state    *)
(*                listener and its user-document reads, logout.            *)
(***************************************************************************)
EXTENDS Integers, Sequences, FiniteSets, TLC

VARIABLES
    \* ---- one call of fetchWithRetry on its own (SpecFetch)
    rt,             \* the call's record (see fetchWithRetry below)
    rtLog,          \* history: the attempts settled and the waits elapsed, in order
    \* ---- React state of App (lines 797-813)
    currentPage,
    RFQFile,        \* TRUE when a requirements file is selected
    BidFile,        \* TRUE when a proposal file is selected
    report,
    loading,
    errorMessage,
    showPaywall,
    usageLimits,    \* usageLimits.bidderChecks
    currentUser,    \* [role |-> ...]
    userId,
    \* ---- the persistence collaborator
    usageDoc,       \* users/{uid}/usage_limits/smartbids_tracker
    trackerInit,    \* TRUE while the tracker's setDoc(docRef, {bidderChecks: 0})
                    \* of line 860 is issued and has not reached the document
    \* ---- the runs of handleAnalyze
    run,            \* run id -> the record of a run of handleAnalyze; it is kept
                    \* from the call until the first call after the run ended
    nextRun,        \* id of the next call of handleAnalyze
    \* ---- the history page (SpecRanking)
    reportsHistory, \* the saved reports the history listener delivered (line 804)
    ranking,        \* what ComplianceRanking last rendered from them
    \* ---- one call of processFile on its own (SpecExtract)
    pxArgs,         \* the file given and the libraries loaded
    px,             \* the call's record (see processFile below)
    \* ---- authentication (SpecAuth)
    authUser,       \* auth.currentUser: the uid signed in, or None
    authReads,      \* listener callbacks waiting for their getDoc (line 828)
    isRegisteringRef, \* isRegisteringRef.current (line 807)
    isSubmitting,   \* isSubmitting of the mounted AuthPage (line 506)
    authCall        \* position of the handleRegister or handleLogin in progress

fetchVars == <<rt, rtLog>>
rankVars == <<reportsHistory, ranking>>
extractVars == <<pxArgs, px>>
authVars == <<authUser, authReads, isRegisteringRef, isSubmitting, authCall>>
appVars == <<currentPage, RFQFile, BidFile, report, loading, errorMessage, showPaywall, usageLimits, currentUser, userId, usageDoc, trackerInit, run, nextRun>>
vars == <<rt, rtLog, currentPage, RFQFile, BidFile, report, loading, errorMessage, showPaywall, usageLimits, currentUser, userId, usageDoc, trackerInit, run, nextRun, reportsHistory, ranking, pxArgs, px, authUser, authReads, isRegisteringRef, isSubmitting, authCall>>

----------------------------------------------------------------------------
(* Bounds of the model *)

\* calls of handleAnalyze that start a run, in one behaviour
MaxRuns == 3
\* pages of a pdf document in SpecExtract
MaxPages == 3
\* listener callbacks waiting for their user document at one time in SpecAuth
MaxAuthReads == 2
\* saved reports in the history of SpecRanking
MaxHistory == 2
\* largest maxRetries argument tried in SpecFetch
MaxRetriesArg == 4
\* the maxRetries arguments of SpecFetch start at -NegRetries
NegRetries == 1

(* Program constants *)

MAX_FREE_AUDITS == 1000000
DefaultMaxRetries == 3
BackoffUnitMs == 1000

----------------------------------------------------------------------------
(* Values *)

\* no value (null / undefined)
None == [t |-> "none"]

\* new Error(msg): an object with a message
Error(msg, status) == [t |-> "Error", msg |-> msg, status |-> status]

\* a rejection with a bare string, reject("..."): it has no .message
StringRejection(msg) == [t |-> "string", msg |-> msg, status |-> 0]

\* a rejection with a FileReader ProgressEvent: it has no .message
ProgressEvent == [t |-> "ProgressEvent", msg |-> "", status |-> 0]

\* error.message
Message(e) == IF e.t = "Error" THEN [t |-> "string", msg |-> e.msg, status |-> e.status] ELSE None

----------------------------------------------------------------------------
(* The transport: what one fetch(url, options) can settle to *)

\* a JSON object is a record that has exactly the fields present in the
\* object; Put is the assignment obj[k] = v, Drop removes a field
Put(obj, k, v) == [f \in DOMAIN obj \cup {k} |-> IF f = k THEN v ELSE obj[f]]
Drop(obj, k) == [f \in DOMAIN obj \ {k} |-> obj[f]]

\* SMARTHIRE_REPORT_SCHEMA, lines 54-135: the properties, the required
\* ones (line 134) and the enums (lines 41, 81, 117)
SchemaProperties ==
    {"jobRole", "candidateName", "candidateLocation", "salaryIndication", "candidateSummary",
     "suitabilityScore", "fitLevel", "skillGaps", "interviewQuestions", "executiveSummary", "findings"}
SchemaRequired ==
    {"jobRole", "candidateName", "candidateLocation", "salaryIndication", "suitabilityScore",
     "fitLevel", "candidateSummary", "skillGaps", "interviewQuestions", "executiveSummary", "findings"}
FitLevels == {"EXCELLENT FIT", "GOOD FIT", "AVERAGE", "POOR FIT"}
Flags == {"MATCH", "PARTIAL", "MISSING"}
CATEGORY_ENUM == {"MUST_HAVE_SKILL", "EXPERIENCE", "EDUCATION", "CERTIFICATION", "SOFT_SKILLS", "LOCATION/LANG", "CULTURE_FIT"}

\* a finding (lines 108-131); matchScore in halves: 2 is 1, 1 is 0.5, 0 is 0
Finding(half, flag, category) == [matchScore |-> half, flag |-> flag, category |-> category]

\* the objects the generation endpoint may return as its text: ValidPayload(fs)
\* satisfies the schema, the others lack a required field, hold a value
\* outside an enum, or carry a field the schema does not have
ValidPayload(fs) ==
    [jobRole |-> "RFP title", candidateName |-> "Bidder", candidateLocation |-> "Unknown",
     salaryIndication |-> "Not Specified", candidateSummary |-> [yearsExperienceNum |-> 0],
     suitabilityScore |-> 80, fitLevel |-> "GOOD FIT", skillGaps |-> <<>>,
     interviewQuestions |-> <<>>, executiveSummary |-> "Summary", findings |-> fs]
OneFinding == <<Finding(2, "MATCH", "EXPERIENCE")>>
TwoFindings == <<Finding(2, "MATCH", "EXPERIENCE"), Finding(0, "MISSING", "CERTIFICATION")>>
Payloads ==
    {ValidPayload(<<>>), ValidPayload(OneFinding), ValidPayload(TwoFindings),
     Drop(ValidPayload(OneFinding), "jobRole"),
     Drop(ValidPayload(OneFinding), "candidateName"),
     Drop(ValidPayload(OneFinding), "findings"),
     Put(ValidPayload(OneFinding), "fitLevel", "SUPER FIT"),
     ValidPayload(<<Finding(2, "YES", "EXPERIENCE")>>),
     ValidPayload(<<Finding(2, "MATCH", "PRICE")>>),
     Put(ValidPayload(OneFinding), "internalNotes", "x")}

\* candidates[0].content.parts[0].text of the decoded body (line 994):
\*   None          absent, or the empty string
\*   Unparsable    a text that is not JSON: JSON.parse throws
\*   JsonText(v)   a text that is the JSON of v, an object or null (None)
Unparsable == [t |-> "unparsable"]
JsonText(v) == [t |-> "json", value |-> v]
JsonTexts == {None, Unparsable, JsonText(None)} \cup {JsonText(v) : v \in Payloads}

\* response bodies of the generation endpoint
\*   NotJson       the body is not JSON: response.json() rejects
\*   Result(text)  a JSON body, with the text it carries
NotJson == [t |-> "notjson"]
Result(text) == [t |-> "result", text |-> text]
Bodies == {NotJson} \cup {Result(text) : text \in JsonTexts}

FailStatuses == {500, 503}

Response(status, body) == [t |-> "response", status |-> status, body |-> body]

\* fetch rejects: a network-level error
NetworkError == [t |-> "reject", err |-> Error("Failed to fetch", 0)]

\* response.ok
ResponseOk(resp) == resp.status >= 200 /\ resp.status <= 299

TransportOutcomes == {Response(200, b) : b \in Bodies} \cup {Response(s, None) : s \in FailStatuses} \cup {NetworkError}

----------------------------------------------------------------------------
(* fetchWithRetry, lines 138-149.                                          *)
(* A call is a record: max (maxRetries), i (the loop variable),            *)
(* st: "fetching"  awaiting fetch() of attempt i                           *)
(*     "waiting"   awaiting the setTimeout of delay ms after attempt i     *)
(*     "returned"  returned val, a response                                *)
(*     "threw"     threw val, an error                                     *)
(*     "undefined" the loop ended and the function returned nothing        *)

RECURSIVE Pow2(_)
Pow2_Linear(n) == 2 * n
Pow2(n) == IF n <= 0 THEN 1 ELSE 2 * Pow2(n - 1)

\* line 139: the loop test, entering the body or leaving the loop
FetchLoop(f) ==
    IF f.i < f.max
    THEN [f EXCEPT !.st = "fetching"]
    ELSE [f EXCEPT !.st = "undefined"]

\* line 138: the call
fetchWithRetry(maxRetries) ==
    FetchLoop([max |-> maxRetries, i |-> 0, st |-> "idle", val |-> None, delay |-> 0])

\* lines 142, 144: the error the catch block receives
AttemptError(out) ==
    IF out.t = "response"
    THEN Error("HTTP error! Status", out.status)
    ELSE out.err

\* faulty variants of the loop body, against which the properties are validated
FetchSettled_NoRetry(f, out) ==
    IF out.t = "response" /\ ResponseOk(out)
    THEN [f EXCEPT !.st = "returned", !.val = out]
    ELSE [f EXCEPT !.st = "threw", !.val = AttemptError(out)]

FetchSettled_NoReturn(f, out) ==
    IF f.i = f.max - 1
    THEN IF out.t = "response" /\ ResponseOk(out)
         THEN [f EXCEPT !.st = "returned", !.val = out]
         ELSE [f EXCEPT !.st = "threw", !.val = AttemptError(out)]
    ELSE [f EXCEPT !.st = "waiting", !.delay = Pow2(f.i) * BackoffUnitMs]

FetchSettled_NoWait(f, out) ==
    IF out.t = "response" /\ ResponseOk(out)
    THEN [f EXCEPT !.st = "returned", !.val = out]
    ELSE IF f.i = f.max - 1
         THEN [f EXCEPT !.st = "threw", !.val = AttemptError(out)]
         ELSE [f EXCEPT !.i = f.i + 1]

FetchSettled_FirstError(f, out) ==
    IF out.t = "response" /\ ResponseOk(out)
    THEN [f EXCEPT !.st = "returned", !.val = out]
    ELSE IF f.i = f.max - 1
         THEN [f EXCEPT !.st = "threw", !.val = IF f.val = None THEN AttemptError(out) ELSE f.val]
         ELSE [f EXCEPT !.st = "waiting", !.delay = Pow2(f.i) * BackoffUnitMs,
                        !.val = IF f.val = None THEN AttemptError(out) ELSE f.val]

\* lines 141-147: the fetch of attempt f.i settles with out
FetchSettled(f, out) ==
    IF out.t = "response" /\ ResponseOk(out)
    THEN [f EXCEPT !.st = "returned", !.val = out]
    ELSE IF f.i = f.max - 1
         THEN [f EXCEPT !.st = "threw", !.val = AttemptError(out)]
         ELSE [f EXCEPT !.st = "waiting", !.delay = Pow2(f.i) * BackoffUnitMs]

\* lines 146, 139: the timer fires, i++ and the loop test
BackoffElapsed(f) == FetchLoop([f EXCEPT !.i = f.i + 1, !.delay = 0])

NoCall == [max |-> 0, i |-> 0, st |-> "idle", val |-> None, delay |-> 0]

----------------------------------------------------------------------------
(* processFile, lines 156-192.                                             *)
(* The file's name and bytes, the two optional libraries (window.pdfjsLib, *)
(* window.mammoth) and the FileReader's events are inputs.                 *)
(* An extraction is a record: ext, st ("reading": the FileReader is        *)
(* pending; "resolved"; "rejected"; "hung": the reader failed and nothing  *)
(* settles the promise), val (the text or the rejection value).            *)

Exts == {"txt", "pdf", "docx", "other"}

Texts == {"", "text"}

\* what decoding the bytes gives: a text, or an exception with a message
Decodes == {[t |-> "text", text |-> s] : s \in Texts} \cup {[t |-> "throw", text |-> "Invalid document structure"]}

ReaderEvents == {"load", "error"}

NoExtraction == [ext |-> "", st |-> "none", val |-> None]

Text(s) == [t |-> "text", msg |-> s, status |-> 0]

\* a faulty variant: the pdf is read whether or not the library is loaded
processFile_ReadsWithoutLibrary(ext, pdfjsLib, mammoth) ==
    CASE ext = "txt" -> [ext |-> ext, st |-> "reading", val |-> None]
      [] ext = "pdf" -> [ext |-> ext, st |-> "reading", val |-> None]
      [] ext = "docx" ->
            IF ~mammoth
            THEN [ext |-> ext, st |-> "rejected", val |-> StringRejection("DOCX lib not loaded.")]
            ELSE [ext |-> ext, st |-> "reading", val |-> None]
      [] OTHER -> [ext |-> ext, st |-> "rejected", val |-> StringRejection("Unsupported file type.")]

\* lines 158-190: the synchronous part, up to reader.readAs...
processFile(ext, pdfjsLib, mammoth) ==
    CASE ext = "txt" -> [ext |-> ext, st |-> "reading", val |-> None]
      [] ext = "pdf" ->
            IF ~pdfjsLib
            THEN [ext |-> ext, st |-> "rejected", val |-> StringRejection("PDF lib not loaded.")]
            ELSE [ext |-> ext, st |-> "reading", val |-> None]
      [] ext = "docx" ->
            IF ~mammoth
            THEN [ext |-> ext, st |-> "rejected", val |-> StringRejection("DOCX lib not loaded.")]
            ELSE [ext |-> ext, st |-> "reading", val |-> None]
      [] OTHER -> [ext |-> ext, st |-> "rejected", val |-> StringRejection("Unsupported file type.")]

\* lines 161-162, 166-177, 181-186: the FileReader fires ev; dec is what
\* decoding gives (a text file is decoded by the reader itself, which
\* never throws: bytes that are no text still read as a text)
ReaderSettled(x, ev, dec) ==
    IF x.ext = "txt"
    THEN IF ev = "load"
         THEN [x EXCEPT !.st = "resolved", !.val = Text(IF dec.t = "text" THEN dec.text ELSE "text")]
         ELSE [x EXCEPT !.st = "rejected", !.val = ProgressEvent]
    ELSE IF ev = "load"
         THEN IF dec.t = "text"
              THEN [x EXCEPT !.st = "resolved", !.val = Text(dec.text)]
              ELSE [x EXCEPT !.st = "rejected", !.val = StringRejection(dec.text)]
         ELSE [x EXCEPT !.st = "hung"]

----------------------------------------------------------------------------
(* The usage counter document and incrementUsage, lines 152, 920-930 *)

UsageDoc(n) == [exists |-> TRUE, bidderChecks |-> n]
NoUsageDoc == [exists |-> FALSE, bidderChecks |-> 0]

\* line 926: newCount
NewCount(docSnap) == (IF docSnap.exists THEN docSnap.bidderChecks ELSE 0) + 1

----------------------------------------------------------------------------
(* handleAnalyze, lines 932-1009 *)

Runs == 1..MaxRuns

\* x || fallback for a string field k of obj
OrElse(obj, k, fallback) == IF k \in DOMAIN obj /\ obj[k] # "" THEN obj[k] ELSE fallback

\* lines 997-1000: the object JSON.parse(jsonText) gave, with the fallbacks
ParsedReport(parsed) ==
    Put(Put(parsed, "jobRole", OrElse(parsed, "jobRole", "Untitled RFP")),
        "candidateName", OrElse(parsed, "candidateName", "Unknown Bidder"))

\* line 937
MissingInputMessage == [t |-> "msg", text |-> "Please upload both RFP and Bid documents.", detail |-> "", status |-> 0]

\* line 1007
AnalysisFailedMessage(e) ==
    LET m == Message(e)
    IN  IF m # None /\ m.msg # ""
        THEN [t |-> "msg", text |-> "Analysis failed: ", detail |-> m.msg, status |-> m.status]
        ELSE [t |-> "msg", text |-> "Analysis failed: ", detail |-> "Please check your documents and try again.", status |-> 0]

\* the record of a run at its call. The fields up to resp are the locals of
\* the call; the others record its history: err (the value caught),
\* failedFrom (the state in which it failed), nExtract (calls of
\* processFile), nResolved (those that resolved), xFailed (the rejection of
\* the one that rejected), nFetch (calls of fetch), incCalls (calls of
\* incrementUsage), committed (its transaction committed), rep (the report
\* it set), loggedOut (handleLogout ended while it was in flight)
NoRun ==
    [pc |-> "idle", hasRFQ |-> FALSE, hasBid |-> FALSE, uid |-> None,
     x |-> NoExtraction, rfpContent |-> None, bidContent |-> None,
     f |-> NoCall, resp |-> None, err |-> None, failedFrom |-> "",
     nExtract |-> 0, nResolved |-> 0, xFailed |-> None, nFetch |-> 0,
     incCalls |-> 0, committed |-> FALSE, rep |-> None, loggedOut |-> FALSE]

\* the state of the pipeline (spec section 4.4) at each position of the code
Phase(pc) ==
    CASE pc = "idle" -> "IDLE"
      [] pc \in {"rfp", "bid"} -> "EXTRACTING"
      [] pc = "fetch" -> "REQUESTING"
      [] pc \in {"json", "usage"} -> "VALIDATING"
      [] pc = "done" -> "DONE"
      [] OTHER -> "FAILED"

\* the function has returned: its locals are gone, the history fields stay
Returned(rec) ==
    [rec EXCEPT !.x = NoExtraction, !.rfpContent = None, !.bidContent = None, !.f = NoCall, !.resp = None]

Caught_CountsUsage(rec, e) ==
    Returned([rec EXCEPT !.pc = "failed", !.err = e, !.failedFrom = Phase(rec.pc), !.incCalls = rec.incCalls + 1])

\* lines 1005-1008: catch and finally
Caught(rec, e) == Returned([rec EXCEPT !.pc = "failed", !.err = e, !.failedFrom = Phase(rec.pc)])

\* line 943 or 944: processFile(file) is called and awaited by the run
AwaitExtraction(rec, pc, x) ==
    IF x.st = "rejected"
    THEN Caught([rec EXCEPT !.pc = pc, !.x = x, !.nExtract = rec.nExtract + 1, !.xFailed = x.val], x.val)
    ELSE [rec EXCEPT !.pc = pc, !.x = x, !.nExtract = rec.nExtract + 1]

\* line 993: the run awaits response.json(); of an undefined response it throws
AwaitJson(rec, f) ==
    IF f.st = "returned"
    THEN [rec EXCEPT !.pc = "json", !.f = f, !.resp = f.val]
    ELSE Caught([rec EXCEPT !.f = f], Error("Cannot read properties of undefined", 0))

\* lines 947-991: the payload is assembled and fetchWithRetry is called
\* (with the default maxRetries its first fetch starts in the call)
SendRequest(rec) ==
    LET f == fetchWithRetry(DefaultMaxRetries)
        sent == [rec EXCEPT !.pc = "fetch", !.x = NoExtraction, !.f = f]
    IN  IF f.st = "fetching"
        THEN [sent EXCEPT !.nFetch = rec.nFetch + 1]
        ELSE AwaitJson(sent, f)

\* handleFileChange, lines 215-220, for the requirements document (line 777)
SelectRFQFile ==
    /\ currentPage = "COMPLIANCE_CHECK"
    /\ RFQFile' = TRUE
    /\ errorMessage' = None
    /\ UNCHANGED <<currentPage, BidFile, report, loading, showPaywall, usageLimits, currentUser, userId, usageDoc, run, nextRun>>
    /\ UNCHANGED fetchVars
    /\ UNCHANGED rankVars
    /\ UNCHANGED extractVars
    /\ UNCHANGED trackerInit
    /\ UNCHANGED authVars

\* handleFileChange, lines 215-220, for the proposal (line 778)
SelectBidFile ==
    /\ currentPage = "COMPLIANCE_CHECK"
    /\ BidFile' = TRUE
    /\ errorMessage' = None
    /\ UNCHANGED <<currentPage, RFQFile, report, loading, showPaywall, usageLimits, currentUser, userId, usageDoc, run, nextRun>>
    /\ UNCHANGED fetchVars
    /\ UNCHANGED rankVars
    /\ UNCHANGED extractVars
    /\ UNCHANGED trackerInit
    /\ UNCHANGED authVars

OverLimit_IgnoresRole == usageLimits >= MAX_FREE_AUDITS

\* lines 934-936: the usage-limit check of handleAnalyze
OverLimit == (currentUser = None \/ currentUser.role # "ADMIN") /\ usageLimits >= MAX_FREE_AUDITS

ButtonEnabled_WhileLoading == currentPage = "COMPLIANCE_CHECK"

\* lines 1065, 783: the button that calls handleAnalyze is on the audit page
\* and is disabled while loading.
\* (It is also disabled while a file is missing; handleAnalyze checks that
\* again at line 937, and the model lets the call reach that check.)
ButtonEnabled == currentPage = "COMPLIANCE_CHECK" /\ ~loading

\* handleAnalyze is called and the usage limit blocks it: no run starts
AnalyzeBlocked ==
    /\ nextRun \in Runs
    /\ ButtonEnabled
    /\ OverLimit
    /\ showPaywall' = TRUE
    /\ UNCHANGED <<currentPage, RFQFile, BidFile, report, loading, errorMessage, usageLimits, currentUser, userId, usageDoc, run, nextRun>>
    /\ UNCHANGED fetchVars
    /\ UNCHANGED rankVars
    /\ UNCHANGED extractVars
    /\ UNCHANGED trackerInit
    /\ UNCHANGED authVars

StartRun_NoCheck(rec, ext, pdfjsLib, mammoth) ==
    AwaitExtraction([rec EXCEPT !.hasRFQ = RFQFile, !.hasBid = BidFile, !.uid = userId], "rfp", processFile(ext, pdfjsLib, mammoth))

\* handleAnalyze, lines 932-943: the call, up to its first await
StartRun(rec, ext, pdfjsLib, mammoth) ==
    LET called == [rec EXCEPT !.hasRFQ = RFQFile, !.hasBid = BidFile, !.uid = userId]
    IN  IF ~RFQFile \/ ~BidFile
        THEN [called EXCEPT !.pc = "failed", !.failedFrom = "IDLE"]
        ELSE AwaitExtraction(called, "rfp", processFile(ext, pdfjsLib, mammoth))

\* lines 1007-1008: what a step of a run after its call does to the React
\* state; new is the run after the step
Settle(new) ==
    /\ loading' = IF new.pc \in {"done", "failed"} THEN FALSE ELSE loading
    /\ errorMessage' = IF new.pc = "failed" THEN AnalysisFailedMessage(new.err) ELSE errorMessage

\* the runs that have not ended
InFlight == {r \in DOMAIN run : run[r].pc \notin {"done", "failed"}}

\* a faulty variant: the call leaves the previous report in place
AnalyzeCall_KeepsReport ==
    /\ nextRun \in Runs
    /\ ButtonEnabled
    /\ ~OverLimit
    /\ \E ext \in Exts, pdfjsLib \in BOOLEAN, mammoth \in BOOLEAN :
         LET new == StartRun(NoRun, ext, pdfjsLib, mammoth)
         IN  /\ run' = [r \in InFlight \cup {nextRun} |-> IF r = nextRun THEN new ELSE run[r]]
             /\ IF new.failedFrom = "IDLE"
                THEN /\ errorMessage' = MissingInputMessage
                     /\ UNCHANGED <<loading, report>>
                ELSE /\ UNCHANGED report
                     /\ loading' = (new.pc # "failed")
                     /\ errorMessage' = IF new.pc = "failed" THEN AnalysisFailedMessage(new.err) ELSE None
    /\ nextRun' = nextRun + 1
    /\ UNCHANGED <<currentPage, RFQFile, BidFile, showPaywall, usageLimits, currentUser, userId, usageDoc>>
    /\ UNCHANGED fetchVars
    /\ UNCHANGED rankVars
    /\ UNCHANGED extractVars
    /\ UNCHANGED trackerInit
    /\ UNCHANGED authVars

\* handleAnalyze is called and passes the checks of lines 934-937 or fails
\* the second: lines 932-944
AnalyzeCall ==
    /\ nextRun \in Runs
    /\ ButtonEnabled
    /\ ~OverLimit
    /\ \E ext \in Exts, pdfjsLib \in BOOLEAN, mammoth \in BOOLEAN :
         LET new == StartRun(NoRun, ext, pdfjsLib, mammoth)
         IN  /\ run' = [r \in InFlight \cup {nextRun} |-> IF r = nextRun THEN new ELSE run[r]]
             /\ IF new.failedFrom = "IDLE"
                THEN /\ errorMessage' = MissingInputMessage
                     /\ UNCHANGED <<loading, report>>
                ELSE /\ report' = None
                     /\ loading' = (new.pc # "failed")
                     /\ errorMessage' = IF new.pc = "failed" THEN AnalysisFailedMessage(new.err) ELSE None
    /\ nextRun' = nextRun + 1
    /\ UNCHANGED <<currentPage, RFQFile, BidFile, showPaywall, usageLimits, currentUser, userId, usageDoc>>
    /\ UNCHANGED fetchVars
    /\ UNCHANGED rankVars
    /\ UNCHANGED extractVars
    /\ UNCHANGED trackerInit
    /\ UNCHANGED authVars

\* lines 943-944, 947-991: the FileReader of the awaited processFile fires
ExtractionStep_IgnoresRejection(rec, ev, dec, ext, pdfjsLib, mammoth) ==
    LET x == ReaderSettled(rec.x, ev, dec)
    IN  CASE x.st = "hung" -> [rec EXCEPT !.x = x]
          [] x.st = "rejected" /\ rec.pc = "rfp" ->
                AwaitExtraction([rec EXCEPT !.xFailed = x.val], "bid", processFile(ext, pdfjsLib, mammoth))
          [] x.st = "rejected" -> SendRequest([rec EXCEPT !.xFailed = x.val])
          [] x.st = "resolved" /\ rec.pc = "rfp" ->
                AwaitExtraction([rec EXCEPT !.rfpContent = x.val, !.nResolved = rec.nResolved + 1], "bid", processFile(ext, pdfjsLib, mammoth))
          [] OTHER -> SendRequest([rec EXCEPT !.bidContent = x.val, !.nResolved = rec.nResolved + 1])

ExtractionStep_OneDocument(rec, ev, dec, ext, pdfjsLib, mammoth) ==
    LET x == ReaderSettled(rec.x, ev, dec)
    IN  CASE x.st = "hung" -> [rec EXCEPT !.x = x]
          [] x.st = "rejected" -> Caught([rec EXCEPT !.x = x, !.xFailed = x.val], x.val)
          [] OTHER -> SendRequest([rec EXCEPT !.rfpContent = x.val, !.nResolved = rec.nResolved + 1])

ExtractionStep(rec, ev, dec, ext, pdfjsLib, mammoth) ==
    LET x == ReaderSettled(rec.x, ev, dec)
    IN  CASE x.st = "hung" -> [rec EXCEPT !.x = x]
          [] x.st = "rejected" -> Caught([rec EXCEPT !.x = x, !.xFailed = x.val], x.val)
          [] x.st = "resolved" /\ rec.pc = "rfp" ->
                AwaitExtraction([rec EXCEPT !.rfpContent = x.val, !.nResolved = rec.nResolved + 1], "bid", processFile(ext, pdfjsLib, mammoth))
          [] OTHER -> SendRequest([rec EXCEPT !.bidContent = x.val, !.nResolved = rec.nResolved + 1])

ReaderFires(r) ==
    /\ run[r].pc \in {"rfp", "bid"}
    /\ run[r].x.st = "reading"
    /\ \E ev \in ReaderEvents, dec \in Decodes, ext \in Exts, pdfjsLib \in BOOLEAN, mammoth \in BOOLEAN :
         LET new == ExtractionStep(run[r], ev, dec, ext, pdfjsLib, mammoth)
         IN  /\ run' = [run EXCEPT ![r] = new]
             /\ Settle(new)
    /\ UNCHANGED <<currentPage, RFQFile, BidFile, report, showPaywall, usageLimits, currentUser, userId, usageDoc, nextRun>>
    /\ UNCHANGED fetchVars
    /\ UNCHANGED rankVars
    /\ UNCHANGED extractVars
    /\ UNCHANGED trackerInit
    /\ UNCHANGED authVars

\* lines 141-147, 993: the fetch of the run's current attempt settles
RequestStep(rec, out) ==
    LET f == FetchSettled(rec.f, out)
    IN  CASE f.st = "threw" -> Caught([rec EXCEPT !.f = f], f.val)
          [] f.st = "returned" -> AwaitJson(rec, f)
          [] OTHER -> [rec EXCEPT !.f = f]

FetchSettles(r) ==
    /\ run[r].pc = "fetch"
    /\ run[r].f.st = "fetching"
    /\ \E out \in TransportOutcomes :
         LET new == RequestStep(run[r], out)
         IN  /\ run' = [run EXCEPT ![r] = new]
             /\ Settle(new)
    /\ UNCHANGED <<currentPage, RFQFile, BidFile, report, showPaywall, usageLimits, currentUser, userId, usageDoc, nextRun>>
    /\ UNCHANGED fetchVars
    /\ UNCHANGED rankVars
    /\ UNCHANGED extractVars
    /\ UNCHANGED trackerInit
    /\ UNCHANGED authVars

\* lines 146, 139-141: the backoff timer of the run fires
BackoffStep(rec) ==
    LET f == BackoffElapsed(rec.f)
    IN  CASE f.st = "fetching" -> [rec EXCEPT !.f = f, !.nFetch = rec.nFetch + 1]
          [] OTHER -> AwaitJson(rec, f)

BackoffFires(r) ==
    /\ run[r].pc = "fetch"
    /\ run[r].f.st = "waiting"
    /\ LET new == BackoffStep(run[r])
       IN  /\ run' = [run EXCEPT ![r] = new]
           /\ Settle(new)
    /\ UNCHANGED <<currentPage, RFQFile, BidFile, report, showPaywall, usageLimits, currentUser, userId, usageDoc, nextRun>>
    /\ UNCHANGED fetchVars
    /\ UNCHANGED rankVars
    /\ UNCHANGED extractVars
    /\ UNCHANGED trackerInit
    /\ UNCHANGED authVars

\* incrementUsage, lines 920-923: the call; TRUE when a transaction starts
StartsTransaction(uid) == uid # None

\* lines 1001-1002: the report is set and incrementUsage is called
ReportStep(rec, parsedReport) ==
    IF StartsTransaction(rec.uid)
    THEN [rec EXCEPT !.pc = "usage", !.rep = parsedReport, !.incCalls = rec.incCalls + 1]
    ELSE Returned([rec EXCEPT !.pc = "done", !.rep = parsedReport, !.incCalls = rec.incCalls + 1])

ValidateStep_RetriesRequest(rec) ==
    LET body == rec.resp.body
    IN  IF body = NotJson
        THEN Caught(rec, Error("Unexpected token in JSON", 0))
        ELSE IF body.text = None
        THEN SendRequest(rec)
        ELSE IF body.text = Unparsable
        THEN Caught(rec, Error("Unexpected token in JSON", 0))
        ELSE IF body.text.value = None
        THEN Caught(rec, Error("Cannot read properties of null", 0))
        ELSE ReportStep(rec, ParsedReport(body.text.value))

ValidateStep_AcceptsEmpty(rec) ==
    LET body == rec.resp.body
    IN  IF body = NotJson
        THEN Caught(rec, Error("Unexpected token in JSON", 0))
        ELSE IF body.text = None \/ body.text = Unparsable
        THEN ReportStep(rec, ParsedReport([k \in {"findings"} |-> <<>>]))
        ELSE IF body.text.value = None
        THEN Caught(rec, Error("Cannot read properties of null", 0))
        ELSE ReportStep(rec, ParsedReport(body.text.value))

\* lines 993-1003: response.json() settles; the text is decoded, the report
\* is set and incrementUsage is called
ValidateStep(rec) ==
    LET body == rec.resp.body
    IN  IF body = NotJson
        THEN Caught(rec, Error("Unexpected token in JSON", 0))
        ELSE IF body.text = None
        THEN Caught(rec, Error("AI response was empty or invalid.", 0))
        ELSE IF body.text = Unparsable
        THEN Caught(rec, Error("Unexpected token in JSON", 0))
        ELSE IF body.text.value = None
        THEN Caught(rec, Error("Cannot read properties of null", 0))
        ELSE ReportStep(rec, ParsedReport(body.text.value))

JsonSettles(r) ==
    /\ run[r].pc = "json"
    /\ LET new == ValidateStep(run[r])
       IN  /\ run' = [run EXCEPT ![r] = new]
           /\ report' = IF new.rep # None THEN new.rep ELSE report
           /\ Settle(new)
    /\ UNCHANGED <<currentPage, RFQFile, BidFile, showPaywall, usageLimits, currentUser, userId, usageDoc, nextRun>>
    /\ UNCHANGED fetchVars
    /\ UNCHANGED rankVars
    /\ UNCHANGED extractVars
    /\ UNCHANGED trackerInit
    /\ UNCHANGED authVars

\* lines 924-929, 1008: the transaction of incrementUsage commits or fails
\* (the failure is logged), and the run ends
TransactionStep(rec, commits) == Returned([rec EXCEPT !.pc = "done", !.committed = commits])

TransactionSettles(r) ==
    /\ run[r].pc = "usage"
    /\ \E commits \in BOOLEAN :
         LET new == TransactionStep(run[r], commits)
         IN  /\ run' = [run EXCEPT ![r] = new]
             /\ usageDoc' = IF commits THEN UsageDoc(NewCount(usageDoc)) ELSE usageDoc
             /\ Settle(new)
    /\ UNCHANGED <<currentPage, RFQFile, BidFile, report, showPaywall, usageLimits, currentUser, userId, nextRun>>
    /\ UNCHANGED fetchVars
    /\ UNCHANGED rankVars
    /\ UNCHANGED extractVars
    /\ UNCHANGED trackerInit
    /\ UNCHANGED authVars

\* the usage tracker listener, lines 853-866: a snapshot of the counter
\* document is delivered. For a missing document the listener issues the
\* write of line 860, which is no transaction: it reaches the document
\* later (TrackerInitLands), whatever the document holds by then.
TrackerSnapshot ==
    /\ userId # None
    /\ IF usageDoc.exists
       THEN /\ usageLimits' = usageDoc.bidderChecks
            /\ usageLimits' # usageLimits
            /\ UNCHANGED trackerInit
       ELSE /\ ~trackerInit
            /\ trackerInit' = TRUE
            /\ UNCHANGED usageLimits
    /\ UNCHANGED <<currentPage, RFQFile, BidFile, report, loading, errorMessage, showPaywall, currentUser, userId, usageDoc, run, nextRun>>
    /\ UNCHANGED fetchVars
    /\ UNCHANGED rankVars
    /\ UNCHANGED extractVars
    /\ UNCHANGED authVars

\* line 860: the write setDoc(docRef, {bidderChecks: 0}) reaches the
\* document and replaces it, or fails (the failure is logged)
TrackerInitLands ==
    /\ trackerInit
    /\ userId # None
    /\ trackerInit' = FALSE
    /\ \E lands \in BOOLEAN : usageDoc' = IF lands THEN UsageDoc(0) ELSE usageDoc
    /\ UNCHANGED <<currentPage, RFQFile, BidFile, report, loading, errorMessage, showPaywall, usageLimits, currentUser, userId, run, nextRun>>
    /\ UNCHANGED fetchVars
    /\ UNCHANGED rankVars
    /\ UNCHANGED extractVars
    /\ UNCHANGED authVars

\* line 788: the history page is opened from the audit page
ViewHistory ==
    /\ currentPage = "COMPLIANCE_CHECK"
    /\ report # None \/ userId # None
    /\ currentPage' = "HISTORY"
    /\ UNCHANGED <<RFQFile, BidFile, report, loading, errorMessage, showPaywall, usageLimits, currentUser, userId, usageDoc, run, nextRun>>
    /\ UNCHANGED fetchVars
    /\ UNCHANGED rankVars
    /\ UNCHANGED extractVars
    /\ UNCHANGED trackerInit
    /\ UNCHANGED authVars

\* line 491: back from the history page to the audit page
BackToAudit ==
    /\ currentPage = "HISTORY"
    /\ currentPage' = "COMPLIANCE_CHECK"
    /\ UNCHANGED <<RFQFile, BidFile, report, loading, errorMessage, showPaywall, usageLimits, currentUser, userId, usageDoc, run, nextRun>>
    /\ UNCHANGED fetchVars
    /\ UNCHANGED rankVars
    /\ UNCHANGED extractVars
    /\ UNCHANGED trackerInit
    /\ UNCHANGED authVars

\* handleLogout, lines 815-820 (with the auth listener's reset, line 845):
\* signOut has settled and the state is reset. Nothing of it reaches a run
\* of handleAnalyze that is in flight; loading is not reset.
handleLogout ==
    /\ currentPage \in {"COMPLIANCE_CHECK", "HISTORY", "ADMIN"}
    /\ userId # None
    /\ userId' = None
    /\ currentUser' = None
    /\ report' = None
    /\ RFQFile' = FALSE
    /\ BidFile' = FALSE
    /\ usageLimits' = 0
    /\ currentPage' = "HOME"
    /\ errorMessage' = None
    /\ run' = [r \in DOMAIN run |-> IF r \in InFlight THEN [run[r] EXCEPT !.loggedOut = TRUE] ELSE run[r]]
    /\ UNCHANGED <<loading, showPaywall, usageDoc, nextRun>>
    /\ UNCHANGED fetchVars
    /\ reportsHistory' = <<>>
    /\ UNCHANGED ranking
    /\ UNCHANGED extractVars
    /\ UNCHANGED trackerInit
    /\ authUser' = None
    /\ isSubmitting' = FALSE
    /\ UNCHANGED <<authReads, isRegisteringRef, authCall>>

\* line 1109: the paywall is closed
PaywallClose ==
    /\ showPaywall
    /\ showPaywall' = FALSE
    /\ UNCHANGED <<currentPage, RFQFile, BidFile, report, loading, errorMessage, usageLimits, currentUser, userId, usageDoc, run, nextRun>>
    /\ UNCHANGED fetchVars
    /\ UNCHANGED rankVars
    /\ UNCHANGED extractVars
    /\ UNCHANGED trackerInit
    /\ UNCHANGED authVars

----------------------------------------------------------------------------
(* Spec: a signed-in session on the audit page *)

Roles == {"ADMIN", "BIDDER"}

\* the state of fetchVars outside SpecFetch
FetchIdle ==
    /\ rt = NoCall
    /\ rtLog = <<>>

\* the state of rankVars outside SpecRanking: no saved report
RankIdle ==
    /\ reportsHistory = <<>>
    /\ ranking = None

\* the state of extractVars outside SpecExtract
ExtractIdle ==
    /\ pxArgs = None
    /\ px = NoExtraction

\* the uid of the one account of the model
Uid == [t |-> "uid"]

\* nobody is signed in and the sign-in page is at rest (lines 506, 807)
AuthIdle ==
    /\ authUser = None
    /\ authReads = 0
    /\ isRegisteringRef = FALSE
    /\ isSubmitting = FALSE
    /\ authCall = "idle"

\* the account is signed in and its listener callback has completed
AuthSignedIn ==
    /\ authUser = Uid
    /\ authReads = 0
    /\ isRegisteringRef = FALSE
    /\ isSubmitting = FALSE
    /\ authCall = "idle"

\* lines 797-813, after sign-in: no file, no report, and a counter document
\* that is missing or one short of the limit
Init ==
    /\ FetchIdle
    /\ RankIdle
    /\ ExtractIdle
    /\ AuthSignedIn
    /\ currentPage = "COMPLIANCE_CHECK"
    /\ RFQFile = FALSE
    /\ BidFile = FALSE
    /\ report = None
    /\ loading = FALSE
    /\ errorMessage = None
    /\ showPaywall = FALSE
    /\ usageLimits = 0
    /\ currentUser \in {[role |-> r] : r \in Roles}
    /\ userId = [t |-> "uid"]
    /\ usageDoc \in {NoUsageDoc, UsageDoc(MAX_FREE_AUDITS - 1)}
    /\ trackerInit = FALSE
    /\ run = [r \in {} |-> NoRun]
    /\ nextRun = 1

Next ==
    \/ SelectRFQFile
    \/ SelectBidFile
    \/ AnalyzeBlocked
    \/ AnalyzeCall
    \/ \E r \in DOMAIN run : ReaderFires(r)
    \/ \E r \in DOMAIN run : FetchSettles(r)
    \/ \E r \in DOMAIN run : BackoffFires(r)
    \/ \E r \in DOMAIN run : JsonSettles(r)
    \/ \E r \in DOMAIN run : TransactionSettles(r)
    \/ TrackerSnapshot
    \/ TrackerInitLands
    \/ ViewHistory
    \/ BackToAudit
    \/ handleLogout
    \/ PaywallClose

Spec == Init /\ [][Next]_vars

----------------------------------------------------------------------------
(* SpecFetch: one call of fetchWithRetry(url, options, maxRetries), for     *)
(* every maxRetries of FetchArgs and every behaviour of the transport.      *)
(* rtLog records, in order, every attempt that settled (with the loop       *)
(* index and what fetch settled to) and every wait that elapsed.            *)

FetchArgs == (0 - NegRetries)..MaxRetriesArg

AttemptEvent(i, out) == [e |-> "attempt", i |-> i, out |-> out, ms |-> 0]
WaitEvent(i, ms) == [e |-> "wait", i |-> i, out |-> None, ms |-> ms]

\* the state of appVars outside Spec
AppIdle ==
    /\ currentPage = "HOME"
    /\ RFQFile = FALSE
    /\ BidFile = FALSE
    /\ report = None
    /\ loading = FALSE
    /\ errorMessage = None
    /\ showPaywall = FALSE
    /\ usageLimits = 0
    /\ currentUser = None
    /\ userId = None
    /\ usageDoc = NoUsageDoc
    /\ trackerInit = FALSE
    /\ run = [r \in {} |-> NoRun]
    /\ nextRun = 1

InitFetch ==
    /\ AppIdle
    /\ RankIdle
    /\ ExtractIdle
    /\ AuthIdle
    /\ rt = NoCall
    /\ rtLog = <<>>

\* line 138: the call, with its first loop test
RtCall ==
    /\ rt.st = "idle"
    /\ \E maxRetries \in FetchArgs : rt' = fetchWithRetry(maxRetries)
    /\ rtLog' = <<>>
    /\ UNCHANGED appVars
    /\ UNCHANGED authVars
    /\ UNCHANGED rankVars
    /\ UNCHANGED extractVars

\* lines 141-147: the pending fetch settles
RtSettles ==
    /\ rt.st = "fetching"
    /\ \E out \in TransportOutcomes :
         /\ rt' = FetchSettled(rt, out)
         /\ rtLog' = Append(rtLog, AttemptEvent(rt.i, out))
    /\ UNCHANGED appVars
    /\ UNCHANGED authVars
    /\ UNCHANGED rankVars
    /\ UNCHANGED extractVars

\* line 146: the pending timer fires
RtTimer ==
    /\ rt.st = "waiting"
    /\ rt' = BackoffElapsed(rt)
    /\ rtLog' = Append(rtLog, WaitEvent(rt.i, rt.delay))
    /\ UNCHANGED appVars
    /\ UNCHANGED authVars
    /\ UNCHANGED rankVars
    /\ UNCHANGED extractVars

NextFetch ==
    \/ RtCall
    \/ RtSettles
    \/ RtTimer

SpecFetch == InitFetch /\ [][NextFetch]_vars

\* ---- the history of the call

Attempts == SelectSeq(rtLog, LAMBDA ev : ev.e = "attempt")
Waits == SelectSeq(rtLog, LAMBDA ev : ev.e = "wait")

Succeeded(ev) == ev.e = "attempt" /\ ev.out.t = "response" /\ ev.out.status >= 200 /\ ev.out.status <= 299
Failed(ev) == ev.e = "attempt" /\ ~Succeeded(ev)

RECURSIVE SumMs(_)
SumMs(evs) == IF evs = <<>> THEN 0 ELSE Head(evs).ms + SumMs(Tail(evs))

\* 2^0 + 2^1 + ... + 2^k, and 0 when k < 0
RECURSIVE SumPow2(_)
SumPow2(k) == IF k < 0 THEN 0 ELSE 2^k + SumPow2(k - 1)

RtEnded == rt.st \in {"returned", "threw", "undefined"}

----------------------------------------------------------------------------
(* Claims about fetchWithRetry, checked under SpecFetch *)

\* C2: a call with maxRetries >= 1 whose every attempt failed has ended only
\* by throwing, after exactly maxRetries attempts and maxRetries - 1 waits
\* of 2^0 + ... + 2^(maxRetries-2) backoff units in total, the last event
\* being an attempt (no wait after the last attempt).
FetchExhaustion ==
    (RtEnded /\ rt.max >= 1 /\ \A k \in 1..Len(Attempts) : Failed(Attempts[k])) =>
        /\ rt.st = "threw"
        /\ Len(Attempts) = rt.max
        /\ Len(Waits) = rt.max - 1
        /\ SumMs(Waits) = SumPow2(rt.max - 2) * BackoffUnitMs
        /\ rtLog[Len(rtLog)].e = "attempt"

FetchExhaustionWitness ==
    /\ rt.st = "threw"
    /\ rt.max = DefaultMaxRetries
    /\ Len(Attempts) = 3
    /\ SumMs(Waits) = 3 * BackoffUnitMs

\* C3: with maxRetries >= 2, a call whose first attempt failed has not ended
\* before a second attempt, and when the second attempt succeeds the call
\* has returned that attempt's response after exactly 2 attempts.
FetchRetryThenSuccess ==
    /\ (rt.max >= 2 /\ Len(Attempts) = 1 /\ Failed(Attempts[1])) => ~RtEnded
    /\ (Len(Attempts) >= 2 /\ Failed(Attempts[1]) /\ Succeeded(Attempts[2])) =>
          /\ rt.st = "returned"
          /\ rt.val = Attempts[2].out
          /\ Len(Attempts) = 2

FetchRetryThenSuccessWitness ==
    /\ rt.st = "returned"
    /\ rt.max = DefaultMaxRetries
    /\ Len(Attempts) = 2
    /\ Failed(Attempts[1])
    /\ Succeeded(Attempts[2])

\* C4: a successful attempt is the last event of the call, which has
\* returned that attempt's response: nothing is attempted after a success.
FetchStopsAtSuccess ==
    \A k \in 1..Len(rtLog) :
        Succeeded(rtLog[k]) =>
            /\ k = Len(rtLog)
            /\ rt.st = "returned"
            /\ rt.val = rtLog[k].out

FetchStopsAtSuccessWitness ==
    /\ rt.st = "returned"
    /\ rt.max = MaxRetriesArg
    /\ Len(rtLog) = 1
    /\ Succeeded(rtLog[1])

\* C5: attempts and waits alternate, starting with an attempt; the wait after
\* attempt i lasts 2^i backoff units; attempt i is pending only after the i
\* earlier attempts and their i waits have all elapsed.
FetchBackoff ==
    /\ \A k \in 1..Len(rtLog) :
          /\ rtLog[k].e = (IF k % 2 = 1 THEN "attempt" ELSE "wait")
          /\ rtLog[k].i = (k - 1) \div 2
          /\ rtLog[k].e = "wait" => rtLog[k].ms = (2 ^ rtLog[k].i) * BackoffUnitMs
    /\ rt.st = "fetching" => Len(rtLog) = 2 * rt.i
    /\ rt.st = "waiting" => Len(rtLog) = 2 * rt.i + 1

FetchBackoffWitness ==
    /\ rt.st = "fetching"
    /\ rt.i = 2
    /\ Len(rtLog) = 4
    /\ rtLog[2].ms = BackoffUnitMs
    /\ rtLog[4].ms = 2 * BackoffUnitMs

\* C6: the error thrown is the error of the last attempt (the HTTP error of
\* its status, or the network error it raised); an attempt with a
\* non-success status or a network error is never returned as a success: it
\* is followed by a wait, or it ends the call by throwing.
FetchLastError ==
    /\ rt.st = "threw" =>
          LET last == rtLog[Len(rtLog)]
          IN  /\ Failed(last)
              /\ last.out.t = "response" => (rt.val.msg = "HTTP error! Status" /\ rt.val.status = last.out.status)
              /\ last.out.t = "reject" => rt.val = last.out.err
    /\ rt.st = "returned" => Succeeded(rtLog[Len(rtLog)])
    /\ \A k \in 1..Len(rtLog) :
          Failed(rtLog[k]) =>
              IF k < Len(rtLog) THEN rtLog[k + 1].e = "wait" ELSE rt.st \in {"waiting", "threw"}

FetchLastErrorWitness ==
    /\ rt.st = "threw"
    /\ Len(Attempts) = 3
    /\ Attempts[1].out = Response(500, None)
    /\ Attempts[2].out = NetworkError
    /\ Attempts[3].out = Response(503, None)

----------------------------------------------------------------------------
(* Claims about handleAnalyze, checked under Spec *)

UsageCount == IF usageDoc.exists THEN usageDoc.bidderChecks ELSE 0

\* C1 as stated: a run that ended in FAILED never incremented the usage
\* counter, and a run that ended in DONE incremented it exactly once, by one.
UsageIncrementedByEveryReport ==
    \A r \in DOMAIN run :
        /\ run[r].pc = "failed" => (run[r].incCalls = 0 /\ ~run[r].committed)
        /\ run[r].pc = "done" => (run[r].incCalls = 1 /\ run[r].committed)

\* C1 as amended: incrementUsage is called exactly once in a run that ends in
\* DONE and never in a run that ends in FAILED or has not reached the
\* report; a step of a run changes the stored counter only when the
\* transaction of such a call commits, and then by exactly one; a
\* transaction that fails leaves the counter as it was and the run still
\* ends in DONE.
UsageIncrementOnlyOnDone ==
    /\ [](\A r \in DOMAIN run :
            /\ run[r].pc = "failed" => (run[r].incCalls = 0 /\ ~run[r].committed)
            /\ run[r].pc = "done" => run[r].incCalls = 1
            /\ run[r].pc \notin {"usage", "done"} => run[r].incCalls = 0
            /\ run[r].pc = "usage" => run[r].incCalls = 1
            /\ run[r].committed => run[r].pc = "done")
    /\ [][run' # run => UsageCount' = UsageCount + Cardinality({r \in DOMAIN run \cap DOMAIN run' : run'[r].committed /\ ~run[r].committed})]_vars

UsageIncrementWitness ==
    \E r \in DOMAIN run :
        /\ run[r].pc = "done"
        /\ run[r].incCalls = 1
        /\ run[r].committed
        /\ usageDoc = UsageDoc(MAX_FREE_AUDITS)

\* C7: a run called while a required document is absent has failed in IDLE,
\* without any call of processFile or of fetch; the step that fails it sets
\* the missing-input message and leaves loading and the report alone.
MissingInputFailsFirst ==
    /\ [](\A r \in DOMAIN run :
            (~run[r].hasRFQ \/ ~run[r].hasBid) =>
                /\ run[r].pc = "failed"
                /\ run[r].failedFrom = "IDLE"
                /\ run[r].nExtract = 0
                /\ run[r].nFetch = 0)
    /\ [][\A r \in DOMAIN run' \ DOMAIN run :
            (~RFQFile \/ ~BidFile) =>
                /\ errorMessage' = MissingInputMessage
                /\ loading' = loading
                /\ report' = report]_vars

MissingInputWitness ==
    \E r \in DOMAIN run :
        /\ run[r].pc = "failed"
        /\ run[r].hasRFQ
        /\ ~run[r].hasBid
        /\ errorMessage = MissingInputMessage

\* the rejections of processFile
ExtractorRejections ==
    {StringRejection("PDF lib not loaded."), StringRejection("DOCX lib not loaded."),
     StringRejection("Unsupported file type."), StringRejection("Invalid document structure"), ProgressEvent}

ExtractionsBeforeRequest ==
    \A r \in DOMAIN run :
        /\ (run[r].nFetch > 0 \/ run[r].pc \in {"fetch", "json", "usage", "done"}) =>
              (run[r].nExtract = 2 /\ run[r].nResolved = 2)
        /\ run[r].pc \in {"fetch", "json", "usage"} =>
              (run[r].rfpContent.t = "text" /\ run[r].bidContent.t = "text")
        /\ run[r].pc = "bid" => (run[r].rfpContent.t = "text" /\ run[r].nResolved = 1)

ExtractionsBeforeRequestWitness ==
    \E r \in DOMAIN run :
        /\ run[r].pc = "fetch"
        /\ run[r].nFetch = 1
        /\ run[r].nResolved = 2

\* the transitions of the pipeline's state machine (spec section 4.4)
PhaseSteps ==
    {<<"IDLE", "EXTRACTING">>, <<"IDLE", "FAILED">>,
     <<"EXTRACTING", "REQUESTING">>, <<"EXTRACTING", "FAILED">>,
     <<"REQUESTING", "VALIDATING">>, <<"REQUESTING", "FAILED">>,
     <<"VALIDATING", "DONE">>, <<"VALIDATING", "FAILED">>}

\* C10: every step of a run keeps its state or moves it along IDLE,
\* EXTRACTING, REQUESTING, VALIDATING, DONE, or to FAILED from a state
\* before DONE; so no state is entered twice; a run in DONE or FAILED takes
\* no step.
PhaseOrder ==
    [][/\ \A r \in DOMAIN run \cap DOMAIN run' :
             /\ Phase(run'[r].pc) = Phase(run[r].pc) \/ <<Phase(run[r].pc), Phase(run'[r].pc)>> \in PhaseSteps
             /\ run[r].pc \in {"done", "failed"} => run'[r] = run[r]
       /\ \A r \in DOMAIN run' \ DOMAIN run :
             Phase(run'[r].pc) = "IDLE" \/ <<"IDLE", Phase(run'[r].pc)>> \in PhaseSteps
       /\ \A r \in DOMAIN run \ DOMAIN run' : run[r].pc \in {"done", "failed"}]_vars

PhaseOrderWitness ==
    \E r \in DOMAIN run :
        /\ run[r].pc = "done"
        /\ run[r].nExtract = 2
        /\ run[r].nFetch = DefaultMaxRetries
        /\ run[r].incCalls = 1

----------------------------------------------------------------------------
(* Claims about the VALIDATING step, checked under Spec *)

\* the response carries a decoded object as its payload
Carries(resp) ==
    /\ resp.body # NotJson
    /\ resp.body.text # None
    /\ resp.body.text # Unparsable
    /\ resp.body.text.value # None

PayloadOf(resp) == resp.body.text.value

\* the runs whose awaited response.json() settles in this step
Validated == {r \in DOMAIN run \cap DOMAIN run' : run[r].pc = "json" /\ run'[r].pc # "json"}

\* C11: a run whose payload lacks a field the schema requires fails in
\* VALIDATING: no report is set, and no required field is filled with a
\* default.
RequiredFieldsValidated ==
    [][\A r \in Validated :
          (Carries(run[r].resp) /\ ~(SchemaRequired \subseteq DOMAIN PayloadOf(run[r].resp))) =>
              /\ run'[r].pc = "failed"
              /\ run'[r].rep = None
              /\ report' = report]_vars

EnumsValid(payload) ==
    /\ "fitLevel" \in DOMAIN payload => payload.fitLevel \in FitLevels
    /\ "findings" \in DOMAIN payload =>
          \A i \in 1..Len(payload.findings) :
              /\ payload.findings[i].flag \in Flags
              /\ payload.findings[i].category \in CATEGORY_ENUM

\* C12: a run whose payload holds, in an enum field, a value outside the
\* enum fails: no report is set and incrementUsage is not called.
EnumsValidated ==
    [][\A r \in Validated :
          (Carries(run[r].resp) /\ ~EnumsValid(PayloadOf(run[r].resp))) =>
              /\ run'[r].pc = "failed"
              /\ run'[r].rep = None
              /\ report' = report
              /\ run'[r].incCalls = 0]_vars

\* C13: when response.json() rejects, or the text is absent, or the text is
\* not the JSON of an object, the step fails the run in VALIDATING with an
\* Error: the report is not set, incrementUsage is not called and the
\* counter is not written; and no run that failed in VALIDATING has set a
\* report or called incrementUsage.
MalformedResponseFails ==
    /\ [](\A r \in DOMAIN run :
            run[r].failedFrom = "VALIDATING" =>
                (run[r].rep = None /\ run[r].incCalls = 0 /\ ~run[r].committed))
    /\ [][\A r \in Validated :
            ~Carries(run[r].resp) =>
                /\ run'[r].pc = "failed"
                /\ run'[r].failedFrom = "VALIDATING"
                /\ run'[r].err.t = "Error"
                /\ run'[r].rep = None
                /\ run'[r].incCalls = 0
                /\ report' = report
                /\ usageDoc' = usageDoc
                /\ ~loading']_vars

MalformedResponseWitness ==
    \E r \in DOMAIN run :
        /\ run[r].pc = "failed"
        /\ run[r].failedFrom = "VALIDATING"
        /\ run[r].err = Error("AI response was empty or invalid.", 0)
        /\ run[r].nFetch = 1
        /\ report = None

\* the runs that fail in this step, after their missing-input check
Failing == {r \in DOMAIN run' : (r \notin DOMAIN run \/ run[r].pc # "failed") /\ run'[r].pc = "failed" /\ run'[r].failedFrom # "IDLE"}

GenericDetail == "Please check your documents and try again."

\* C14: the step in which a run fails sets an error message that carries
\* the detail of the failure that occurred, never the generic text.
FailureDetailSurfaced ==
    [][\A r \in Failing :
          /\ errorMessage' # None
          /\ errorMessage'.detail = run'[r].err.msg
          /\ errorMessage'.detail # GenericDetail]_vars

----------------------------------------------------------------------------
(* Claims about the runs and the session, checked under Spec *)

\* C15: at most one run of handleAnalyze is in flight, loading is true
\* exactly while one is, and a run starts only when none is in flight.
OneRunAtATime ==
    /\ [](Cardinality(InFlight) <= 1 /\ (loading <=> InFlight # {}))
    /\ [][\A r \in DOMAIN run' \ DOMAIN run : InFlight = {} /\ ~loading]_vars

\* a second run is in flight after a first one ended in DONE and was counted
OneRunAtATimeWitness ==
    /\ usageDoc = UsageDoc(1)
    /\ 2 \in DOMAIN run
    /\ run[2].pc = "fetch"
    /\ InFlight = {2}
    /\ loading

\* C16: a run that was in flight when the user logged out produces no
\* report and does not call incrementUsage.
LoggedOutRunCancelled ==
    \A r \in DOMAIN run :
        run[r].loggedOut =>
            /\ run[r].pc \notin {"usage", "done"}
            /\ run[r].rep = None
            /\ run[r].incCalls = 0

IsAdmin == currentUser # None /\ currentUser.role = "ADMIN"

\* C17: while the button is enabled, a call of handleAnalyze is blocked
\* exactly when the user is no ADMIN and the counter shown is at or above
\* the limit, and it starts a run exactly otherwise; the step that shows the
\* paywall is a blocked call and changes nothing else (no run, loading,
\* report, error message, counter); no run starts for a user over the limit.
RoleOnlyBypassesLimit ==
    /\ []((ButtonEnabled /\ nextRun \in Runs) =>
            /\ (ENABLED AnalyzeBlocked) <=> (~IsAdmin /\ usageLimits >= MAX_FREE_AUDITS)
            /\ (ENABLED AnalyzeCall) <=> (IsAdmin \/ usageLimits < MAX_FREE_AUDITS))
    /\ [][(showPaywall' /\ ~showPaywall) =>
            /\ ~IsAdmin
            /\ usageLimits >= MAX_FREE_AUDITS
            /\ UNCHANGED <<run, nextRun, loading, report, errorMessage, usageDoc, RFQFile, BidFile>>]_vars
    /\ [][\A r \in DOMAIN run' \ DOMAIN run : IsAdmin \/ usageLimits < MAX_FREE_AUDITS]_vars

\* an ordinary user at the limit has been blocked: the paywall is shown and
\* the report of the earlier run is still there
RoleOnlyBypassesLimitWitness ==
    /\ showPaywall
    /\ currentUser = [role |-> "BIDDER"]
    /\ usageLimits = MAX_FREE_AUDITS
    /\ report # None
    /\ ~loading
    /\ errorMessage = None

\* C18: the step that validates a payload satisfying the schema sets a
\* report stamped with the kind tag (reportType) COMPLIANCE, with as many
\* findings as the payload.
ReportTaggedCompliance ==
    [][\A r \in Validated :
          (/\ Carries(run[r].resp)
           /\ SchemaRequired \subseteq DOMAIN PayloadOf(run[r].resp)
           /\ EnumsValid(PayloadOf(run[r].resp))) =>
              /\ run'[r].rep # None
              /\ report' = run'[r].rep
              /\ Len(report'.findings) = Len(PayloadOf(run[r].resp).findings)
              /\ "reportType" \in DOMAIN report'
              /\ report'.reportType = "COMPLIANCE"]_vars

\* C19: the report carries only fields of the schema.
ReportCarriesOnlyContractFields ==
    report # None => DOMAIN report \subseteq SchemaProperties

----------------------------------------------------------------------------
(* ComplianceRanking, lines 441-461, and SpecRanking: the history listener  *)
(* delivers the saved reports and the history page renders their ranking.  *)

\* the titles of the saved reports, in the order of localeCompare
TitleOrder == <<"Airport RFP", "Harbour RFP", "Untitled RFP">>

TitleRank(title) == CHOOSE i \in 1..Len(TitleOrder) : TitleOrder[i] = title

\* line 1016-1021, 891: a saved report as the history holds it. The title
\* and the score may be absent (C11); the findings are those of a valid
\* report, scored in halves.
HistoryItems ==
    {[findings |-> fs] : fs \in {<<>>, OneFinding, TwoFindings}}
    \cup {[jobRole |-> t, findings |-> fs] : t \in {"Airport RFP", "Harbour RFP"}, fs \in {<<>>, OneFinding, TwoFindings}}
    \cup {[suitabilityScore |-> n, findings |-> fs] : n \in {40, 90}, fs \in {<<>>, OneFinding, TwoFindings}}
    \cup {[jobRole |-> t, suitabilityScore |-> n, findings |-> fs] :
            t \in {"Airport RFP", "Harbour RFP"}, n \in {40, 90}, fs \in {<<>>, OneFinding, TwoFindings}}

\* line 445: report.suitabilityScore || 0
Percentage(rpt) ==
    IF "suitabilityScore" \in DOMAIN rpt /\ rpt.suitabilityScore # 0 THEN rpt.suitabilityScore ELSE 0

\* lines 444-448: one step of the reduce
GroupStep(acc, rpt) ==
    LET jobRole == OrElse(rpt, "jobRole", "Untitled RFP")
        entry == Put(rpt, "percentage", Percentage(rpt))
        old == IF jobRole \in DOMAIN acc THEN acc[jobRole] ELSE [allReports |-> <<>>, count |-> 0]
    IN  Put(acc, jobRole, [allReports |-> Append(old.allReports, entry), count |-> old.count + 1])

\* lines 443-450: reportsHistory.reduce(..., {})
RECURSIVE GroupedReports(_)
GroupedReports(history) ==
    IF history = <<>>
    THEN [g \in {} |-> 0]
    ELSE GroupStep(GroupedReports(SubSeq(history, 1, Len(history) - 1)), history[Len(history)])

SortByPercentage_Unsorted(seq) == seq

\* line 461: sort((a, b) => b.percentage - a.percentage), a stable sort:
\* an entry goes after the entries whose percentage is not smaller
RECURSIVE SortByPercentage(_)
SortByPercentage(seq) ==
    IF seq = <<>>
    THEN <<>>
    ELSE LET front == SortByPercentage(SubSeq(seq, 1, Len(seq) - 1))
             e == seq[Len(seq)]
             k == Cardinality({i \in 1..Len(front) : front[i].percentage >= e.percentage})
         IN  SubSeq(front, 1, k) \o <<e>> \o SubSeq(front, k + 1, Len(front))

\* line 451: sort(([nameA], [nameB]) => nameA.localeCompare(nameB))
RECURSIVE SortByName(_)
SortByName(seq) ==
    IF seq = <<>>
    THEN <<>>
    ELSE LET front == SortByName(SubSeq(seq, 1, Len(seq) - 1))
             e == seq[Len(seq)]
             k == Cardinality({i \in 1..Len(front) : TitleRank(front[i].jobRole) <= TitleRank(e.jobRole)})
         IN  SubSeq(front, 1, k) \o <<e>> \o SubSeq(front, k + 1, Len(front))

RECURSIVE SetToSeq(_)
SetToSeq(set) == IF set = {} THEN <<>> ELSE LET x == CHOOSE x \in set : TRUE IN <<x>> \o SetToSeq(set \ {x})

\* lines 441-461: the projects in the order rendered, each with its reports
\* in the order rendered; nothing is rendered for an empty history
ComplianceRanking(history) ==
    IF Len(history) = 0
    THEN None
    ELSE LET grouped == GroupedReports(history)
             entries == {[jobRole |-> g, count |-> grouped[g].count,
                          allReports |-> SortByPercentage(grouped[g].allReports)] : g \in DOMAIN grouped}
         IN  [t |-> "ranking", projects |-> SortByName(SetToSeq(entries))]

\* lines 883-893: the history listener delivers the saved reports, with one
\* more than before; each entry carries the id of its document (line 891)
HistorySnapshot ==
    /\ Len(reportsHistory) < MaxHistory
    /\ \E item \in HistoryItems :
         reportsHistory' = Append(reportsHistory, Put(item, "id", Len(reportsHistory) + 1))
    /\ UNCHANGED ranking
    /\ UNCHANGED fetchVars
    /\ UNCHANGED appVars
    /\ UNCHANGED authVars
    /\ UNCHANGED extractVars

\* lines 495, 441-461: the history page renders the ranking
RenderRanking ==
    /\ ranking' = ComplianceRanking(reportsHistory)
    /\ ranking' # ranking
    /\ UNCHANGED reportsHistory
    /\ UNCHANGED fetchVars
    /\ UNCHANGED appVars
    /\ UNCHANGED authVars
    /\ UNCHANGED extractVars

InitRanking ==
    /\ FetchIdle
    /\ AppIdle
    /\ RankIdle
    /\ ExtractIdle
    /\ AuthIdle

NextRanking ==
    \/ HistorySnapshot
    \/ RenderRanking

SpecRanking == InitRanking /\ [][NextRanking]_vars

----------------------------------------------------------------------------
(* Claims about ComplianceRanking, checked under SpecRanking *)

\* the reports rendered, over all projects
Rendered ==
    IF ranking = None
    THEN {}
    ELSE UNION {{p.allReports[i] : i \in 1..Len(p.allReports)} : p \in {ranking.projects[g] : g \in 1..Len(ranking.projects)}}

RECURSIVE SumHalves(_)
SumHalves(fs) == IF fs = <<>> THEN 0 ELSE fs[1].matchScore + SumHalves(Tail(fs))

\* 100 * sum(scores) / count in tenths of a percent, rounded half up, the
\* scores being counted in halves; 0 for no finding
ExpectedTenths(fs) ==
    IF Len(fs) = 0 THEN 0 ELSE (1000 * SumHalves(fs) + Len(fs)) \div (2 * Len(fs))

\* C20: the percentage of every report rendered is 100 * sum(scores) / count
\* of its findings rounded to one decimal, and 0 for a report without
\* findings.
PercentageFromFindings ==
    \A e \in Rendered :
        (\A i \in 1..Len(e.findings) : e.findings[i].matchScore \in {0, 1, 2}) =>
            10 * e.percentage = ExpectedTenths(e.findings)

\* the places (project, position) at which the ranking shows the report id
PlacesOf(rk, id) ==
    {<<g, k>> \in (1..Len(rk.projects)) \X (1..MaxHistory + 1) :
        k <= Len(rk.projects[g].allReports) /\ rk.projects[g].allReports[k].id = id}

\* C21: a ranking rendered from a non-empty history shows every report of
\* the history at exactly one place, in the project of its title (its
\* jobRole, "Untitled RFP" when it has none), each project once, with as
\* many reports as its count says, and the reports of a project by
\* descending score.
GroupAndRank ==
    [][(ranking' # ranking /\ ranking' # None) =>
          LET rk == ranking'
              h == reportsHistory'
          IN  /\ \A i \in 1..Len(h) :
                    /\ Cardinality(PlacesOf(rk, i)) = 1
                    /\ \A pl \in PlacesOf(rk, i) :
                          /\ rk.projects[pl[1]].jobRole =
                                (IF "jobRole" \in DOMAIN h[i] THEN h[i].jobRole ELSE "Untitled RFP")
                          /\ rk.projects[pl[1]].allReports[pl[2]].findings = h[i].findings
                          /\ rk.projects[pl[1]].allReports[pl[2]].percentage =
                                (IF "suitabilityScore" \in DOMAIN h[i] THEN h[i].suitabilityScore ELSE 0)
              /\ \A g \in 1..Len(rk.projects) :
                    /\ rk.projects[g].count = Len(rk.projects[g].allReports)
                    /\ rk.projects[g].count >= 1
                    /\ \A k \in 1..Len(rk.projects[g].allReports) :
                          /\ rk.projects[g].allReports[k].id \in 1..Len(h)
                          /\ k > 1 => rk.projects[g].allReports[k - 1].percentage >= rk.projects[g].allReports[k].percentage
                    /\ \A g2 \in 1..Len(rk.projects) : g2 # g => rk.projects[g2].jobRole # rk.projects[g].jobRole]_vars

\* two reports of one source document, saved with scores 40 then 90, are
\* shown with the 90 first
GroupAndRankWitness ==
    /\ reportsHistory =
          <<[jobRole |-> "Harbour RFP", suitabilityScore |-> 40, findings |-> OneFinding, id |-> 1],
            [jobRole |-> "Harbour RFP", suitabilityScore |-> 90, findings |-> OneFinding, id |-> 2]>>
    /\ ranking # None
    /\ Len(ranking.projects) = 1
    /\ ranking.projects[1].count = 2
    /\ ranking.projects[1].allReports[1].id = 2
    /\ ranking.projects[1].allReports[2].id = 1

----------------------------------------------------------------------------
(* The end of fetchWithRetry for every maxRetries, checked under SpecFetch *)

\* C26: for every maxRetries, a call that has ended has returned a success
\* response or thrown an error; it has not returned undefined.
FetchReturnsOrThrows ==
    RtEnded =>
        \/ rt.st = "returned" /\ ResponseOk(rt.val)
        \/ rt.st = "threw" /\ rt.val # None

----------------------------------------------------------------------------
(* Claims about the end of a run, checked under Spec *)

\* an event of run r: a reader, a fetch, a timer, a body or a transaction
\* of the run settles
RunEvent(r) ==
    \/ ReaderFires(r)
    \/ FetchSettles(r)
    \/ BackoffFires(r)
    \/ JsonSettles(r)
    \/ TransactionSettles(r)

\* no step lowers the stored usage counter
UsageCounterNeverDecreases ==
    [][UsageCount' >= UsageCount]_vars

\* C27: the stored usage counter never decreases, and it counts the
\* successful runs: a step raises it by one for each run that the step ends
\* in DONE and no other step changes it, whatever the order of the
\* transactions of incrementUsage and of the tracker's initial write.
UsageCounterCountsRuns ==
    /\ UsageCounterNeverDecreases
    /\ [][UsageCount' = UsageCount + Cardinality({r \in DOMAIN run \cap DOMAIN run' : run'[r].pc = "done" /\ run[r].pc # "done"})]_vars

\* run r is called in this step and passes line 937
Starts(r) == r \notin DOMAIN run /\ r \in DOMAIN run' /\ run'[r].failedFrom # "IDLE"

\* run r ends in this step with pc as its end
EndsIn(r, pc) ==
    /\ r \in DOMAIN run'
    /\ run'[r].pc = pc
    /\ run'[r].failedFrom # "IDLE"
    /\ r \in DOMAIN run => run[r].pc # pc

\* C28: the step in which a run starts clears the report and the error
\* message (a run that fails in that same step sets the error message);
\* the step in which a run ends in FAILED leaves the report null and the
\* error message non-null; the step in which a run ends in DONE, no logout
\* having happened during the run, leaves the report the run decoded and
\* the error message null.
ReportOrErrorAfterRun ==
    [][\A r \in Runs :
        /\ Starts(r) =>
              /\ report' = None
              /\ run'[r].pc # "failed" => (errorMessage' = None /\ loading')
        /\ EndsIn(r, "failed") =>
              /\ report' = None
              /\ errorMessage' # None
              /\ errorMessage' = AnalysisFailedMessage(run'[r].err)
        /\ (EndsIn(r, "done") /\ ~run'[r].loggedOut) =>
              /\ run'[r].rep # None
              /\ report' = run'[r].rep
              /\ errorMessage' = None]_vars

\* a first run ended in DONE and was counted, and a second run failed after
\* its call: no report is shown, the error message is
ReportOrErrorWitness ==
    /\ usageDoc = UsageDoc(1)
    /\ nextRun = 3
    /\ 2 \in DOMAIN run
    /\ run[2].pc = "failed"
    /\ run[2].failedFrom \in {"EXTRACTING", "REQUESTING", "VALIDATING"}
    /\ report = None
    /\ errorMessage = AnalysisFailedMessage(run[2].err)

\* C29: while no user is signed in the report is null; in particular a run
\* that was in flight at logout does not set it.
SignedOutShowsNoReport ==
    userId = None => report = None

\* C25: every run settles. A run in flight always has an event to come
\* that moves it on (a run without one stays in flight, with loading true,
\* for ever); in particular its extraction is never left pending by a
\* reader that has already fired.
EveryRunSettles ==
    \A r \in InFlight :
        /\ run[r].x.st # "hung"
        /\ ENABLED RunEvent(r)

----------------------------------------------------------------------------
(* SpecExtract: one call of processFile(file), for every file of Files,    *)
(* every state of the two libraries and every event of the FileReader.     *)
(* A file is its extension and its content: the text of a txt file, the    *)
(* pages of a pdf, the raw text of a docx; valid is FALSE when the library  *)
(* cannot open the bytes. A pdf page is the strings of its text items, or  *)
(* a page the library fails to read (ok is FALSE).                         *)

Page(items) == [ok |-> TRUE, items |-> items]
BadPage == [ok |-> FALSE, items |-> <<>>]
PageSamples == {Page(<<>>), Page(<<"A">>), Page(<<"B">>), Page(<<"C">>), Page(<<"A", "B">>), BadPage}

File(ext, valid, text, pages) == [ext |-> ext, valid |-> valid, text |-> text, pages |-> pages]

Files ==
    {File("txt", TRUE, text, <<>>) : text \in {"", "We use GraphQL."}}
    \cup {File("pdf", FALSE, "", <<>>)}
    \cup UNION {{File("pdf", TRUE, "", pages) : pages \in [1..n -> PageSamples]} : n \in 0..MaxPages}
    \cup {File("docx", FALSE, "", <<>>)}
    \cup {File("docx", TRUE, text, <<>>) : text \in {"", "Raw text"}}
    \cup {File("other", TRUE, "a,b", <<>>)}

\* line 173: textContent.items.map(item => item.str).join(' ')
RECURSIVE JoinItems(_)
JoinItems(items) ==
    IF items = <<>> THEN ""
    ELSE IF Len(items) = 1 THEN items[1]
    ELSE items[1] \o " " \o JoinItems(Tail(items))

RECURSIVE PdfLoop(_, _, _)
\* a faulty variant: the separator goes between the pages only
PdfLoop_SeparatorBetween(pages, i, fullText) ==
    IF i > Len(pages)
    THEN [t |-> "text", text |-> fullText]
    ELSE IF ~pages[i].ok
    THEN [t |-> "throw", text |-> "Invalid page request"]
    ELSE PdfLoop(pages, i + 1, fullText \o (IF i > 1 THEN "\n\n" ELSE "") \o JoinItems(pages[i].items))

\* lines 170-176: the loop over the pages, from page i with the text so far
PdfLoop(pages, i, fullText) ==
    IF i > Len(pages)
    THEN [t |-> "text", text |-> fullText]
    ELSE IF ~pages[i].ok
    THEN [t |-> "throw", text |-> "Invalid page request"]
    ELSE PdfLoop(pages, i + 1, fullText \o JoinItems(pages[i].items) \o "\n\n")

\* lines 161, 168-176, 183-185: what decoding the file gives once read
Decode(file) ==
    CASE file.ext = "txt" -> [t |-> "text", text |-> file.text]
      [] file.ext = "pdf" ->
            IF file.valid THEN PdfLoop(file.pages, 1, "") ELSE [t |-> "throw", text |-> "Invalid PDF structure"]
      [] OTHER ->
            IF file.valid THEN [t |-> "text", text |-> file.text] ELSE [t |-> "throw", text |-> "Invalid document structure"]

\* processFile(file) is called
PxCall ==
    /\ px.st = "none"
    /\ \E file \in Files, pdfjsLib \in BOOLEAN, mammoth \in BOOLEAN :
         /\ pxArgs' = [file |-> file, pdfjsLib |-> pdfjsLib, mammoth |-> mammoth]
         /\ px' = processFile(file.ext, pdfjsLib, mammoth)
    /\ UNCHANGED fetchVars
    /\ UNCHANGED appVars
    /\ UNCHANGED authVars
    /\ UNCHANGED rankVars

\* the FileReader of the call fires load or error
PxReader ==
    /\ px.st = "reading"
    /\ \E ev \in ReaderEvents : px' = ReaderSettled(px, ev, Decode(pxArgs.file))
    /\ UNCHANGED pxArgs
    /\ UNCHANGED fetchVars
    /\ UNCHANGED appVars
    /\ UNCHANGED authVars
    /\ UNCHANGED rankVars

InitExtract ==
    /\ FetchIdle
    /\ AppIdle
    /\ RankIdle
    /\ ExtractIdle
    /\ AuthIdle

NextExtract ==
    \/ PxCall
    \/ PxReader

SpecExtract == InitExtract /\ [][NextExtract]_vars

----------------------------------------------------------------------------
(* Claims about processFile, checked under SpecExtract *)

\* the page texts in page order, each followed by a blank-line separator
RECURSIVE PagesInOrder(_)
PagesInOrder(pages) ==
    IF pages = <<>> THEN "" ELSE JoinItems(pages[1].items) \o "\n\n" \o PagesInOrder(Tail(pages))

\* C22: a pdf whose extraction resolved had every page read, and the text
\* is its page texts in page order 1..n, each followed by "\n\n"; a pdf
\* with a page that cannot be read does not resolve.
PdfPagesInOrder ==
    (pxArgs # None /\ pxArgs.file.ext = "pdf") =>
        /\ px.st = "resolved" =>
              /\ pxArgs.file.valid
              /\ \A i \in 1..Len(pxArgs.file.pages) : pxArgs.file.pages[i].ok
              /\ px.val = Text(PagesInOrder(pxArgs.file.pages))
        /\ (px.st = "rejected" /\ pxArgs.pdfjsLib /\ pxArgs.file.valid) =>
              \E i \in 1..Len(pxArgs.file.pages) : ~pxArgs.file.pages[i].ok

\* three pages with the texts A, B, C extract to "A\n\nB\n\nC\n\n"
PdfPagesInOrderWitness ==
    /\ pxArgs # None
    /\ pxArgs.file = File("pdf", TRUE, "", <<Page(<<"A">>), Page(<<"B">>), Page(<<"C">>)>>)
    /\ px.st = "resolved"
    /\ px.val = Text("A\n\nB\n\nC\n\n")

\* C23: an extraction that resolved resolved with a non-empty text.
ExtractedTextNonEmpty ==
    px.st = "resolved" => px.val.msg # ""

\* the failures of C24, as the code words them
DependencyUnavailable(ext) == StringRejection(IF ext = "pdf" THEN "PDF lib not loaded." ELSE "DOCX lib not loaded.")
UnsupportedFormat == StringRejection("Unsupported file type.")

\* the file of the call cannot be handled
Unhandled ==
    \/ pxArgs.file.ext = "pdf" /\ ~pxArgs.pdfjsLib
    \/ pxArgs.file.ext = "docx" /\ ~pxArgs.mammoth
    \/ pxArgs.file.ext \notin {"txt", "pdf", "docx"}

\* C24: a pdf without the pdf library and a docx without the docx library
\* are rejected with the library's message, any extension other than txt,
\* pdf, docx with the unsupported-type message, each at the call, without
\* a read being started; every other file is read.
DispatchOnKind ==
    /\ [](pxArgs # None =>
            IF Unhandled
            THEN /\ px.st = "rejected"
                 /\ px.val = (IF pxArgs.file.ext \in {"pdf", "docx"}
                               THEN DependencyUnavailable(pxArgs.file.ext)
                               ELSE UnsupportedFormat)
            ELSE /\ px.st # "none"
                 /\ px.st = "rejected" => px.val \notin {DependencyUnavailable("pdf"), DependencyUnavailable("docx"), UnsupportedFormat})
    /\ [][(px.st = "none" /\ px'.st # "none" /\ ~Unhandled') => px'.st = "reading"]_vars

\* a pdf was given while only the docx library was loaded, and the call
\* was rejected with the pdf library's message
DispatchOnKindWitness ==
    /\ pxArgs # None
    /\ pxArgs.file.ext = "pdf"
    /\ ~pxArgs.pdfjsLib
    /\ pxArgs.mammoth
    /\ px.st = "rejected"
    /\ px.val = DependencyUnavailable("pdf")

----------------------------------------------------------------------------
(* SpecAuth: the sign-in page (AuthPage is what the router shows for HOME,  *)
(* line 1058), handleRegister, handleLogin, the auth state listener and    *)
(* handleLogout. The model has one account, Uid. A change of the auth      *)
(* state and the synchronous part of the listener callback it causes are   *)
(* one step; the getDoc the callback awaits settles in a later step, in    *)
(* any order with the steps of the handlers.                               *)

\* lines 534, 531, 553-556: the messages of the sign-in page
RegistrationFailedMessage == [t |-> "msg", text |-> "Registration failed. Please try again.", detail |-> "", status |-> 0]
RegistrationSuccessMessage == [t |-> "msg", text |-> "SUCCESS: Registration successful! Please verify your email before logging in.", detail |-> "", status |-> 0]
LoginFailedMessage == [t |-> "msg", text |-> "Login failed. Check credentials.", detail |-> "", status |-> 0]

\* what the getDoc of line 828 settles to: the document with its role, no
\* document, or a failure
UserDocOutcomes == {"ADMIN", "BIDDER", "missing", "error"}

\* lines 830, 840: the role of the user data the callback ends with
RoleOf(outcome) == IF outcome = "ADMIN" THEN "ADMIN" ELSE "BIDDER"

\* lines 512-516: handleRegister is called
RegisterCall ==
    /\ currentPage = "HOME"
    /\ ~isSubmitting
    /\ authCall = "idle"
    /\ errorMessage' = None
    /\ isSubmitting' = TRUE
    /\ isRegisteringRef' = TRUE
    /\ authCall' = "creating"
    /\ UNCHANGED <<authUser, authReads>>
    /\ UNCHANGED <<currentPage, RFQFile, BidFile, report, loading, showPaywall, usageLimits, currentUser, userId, usageDoc, trackerInit, run, nextRun>>
    /\ UNCHANGED fetchVars
    /\ UNCHANGED rankVars
    /\ UNCHANGED extractVars

\* lines 519, 825-826, 532-538: createUserWithEmailAndPassword settles; on
\* success the account is signed in and the listener is called with it
RegisterCreated ==
    /\ authCall = "creating"
    /\ \/ /\ authReads < MaxAuthReads
          /\ authUser' = Uid
          /\ userId' = Uid
          /\ authReads' = authReads + 1
          /\ authCall' = "writing"
          /\ UNCHANGED <<errorMessage, isSubmitting, isRegisteringRef>>
       \/ /\ errorMessage' = RegistrationFailedMessage
          /\ isSubmitting' = FALSE
          /\ isRegisteringRef' = FALSE
          /\ authCall' = "idle"
          /\ UNCHANGED <<authUser, userId, authReads>>
    /\ UNCHANGED <<currentPage, RFQFile, BidFile, report, loading, showPaywall, usageLimits, currentUser, usageDoc, trackerInit, run, nextRun>>
    /\ UNCHANGED fetchVars
    /\ UNCHANGED rankVars
    /\ UNCHANGED extractVars

\* lines 520-529, 532-538: sendEmailVerification and the setDoc of the user
\* document settle; on success signOut is called
RegisterWritten ==
    /\ authCall = "writing"
    /\ \/ /\ authCall' = "signingOut"
          /\ UNCHANGED <<errorMessage, isSubmitting, isRegisteringRef>>
       \/ /\ errorMessage' = RegistrationFailedMessage
          /\ isSubmitting' = FALSE
          /\ isRegisteringRef' = FALSE
          /\ authCall' = "idle"
    /\ UNCHANGED <<authUser, authReads>>
    /\ UNCHANGED <<currentPage, RFQFile, BidFile, report, loading, showPaywall, usageLimits, currentUser, userId, usageDoc, trackerInit, run, nextRun>>
    /\ UNCHANGED fetchVars
    /\ UNCHANGED rankVars
    /\ UNCHANGED extractVars

\* lines 531-538, 843-846: the signOut of handleRegister settles: the
\* listener is called with null and resets the state, and the handler
\* goes on to its end
RegisterSignedOut ==
    /\ authCall = "signingOut"
    /\ authUser' = None
    /\ userId' = None
    /\ currentUser' = None
    /\ reportsHistory' = <<>>
    /\ report' = None
    /\ currentPage' = "HOME"
    /\ errorMessage' = RegistrationSuccessMessage
    /\ isSubmitting' = FALSE
    /\ isRegisteringRef' = FALSE
    /\ authCall' = "idle"
    /\ UNCHANGED authReads
    /\ UNCHANGED <<RFQFile, BidFile, loading, showPaywall, usageLimits, usageDoc, trackerInit, run, nextRun>>
    /\ UNCHANGED fetchVars
    /\ UNCHANGED ranking
    /\ UNCHANGED extractVars

\* lines 544-548: handleLogin is called
LoginCall ==
    /\ currentPage = "HOME"
    /\ ~isSubmitting
    /\ authCall = "idle"
    /\ errorMessage' = None
    /\ isSubmitting' = TRUE
    /\ authCall' = "signingIn"
    /\ UNCHANGED <<authUser, authReads, isRegisteringRef>>
    /\ UNCHANGED <<currentPage, RFQFile, BidFile, report, loading, showPaywall, usageLimits, currentUser, userId, usageDoc, trackerInit, run, nextRun>>
    /\ UNCHANGED fetchVars
    /\ UNCHANGED rankVars
    /\ UNCHANGED extractVars

\* lines 549-558, 825-826: signInWithEmailAndPassword settles; on success
\* the listener is called with the account
LoginSettles ==
    /\ authCall = "signingIn"
    /\ authCall' = "idle"
    /\ \/ /\ authReads < MaxAuthReads
          /\ authUser' = Uid
          /\ userId' = Uid
          /\ authReads' = authReads + 1
          /\ UNCHANGED <<errorMessage, isSubmitting>>
       \/ /\ errorMessage' = LoginFailedMessage
          /\ isSubmitting' = FALSE
          /\ UNCHANGED <<authUser, userId, authReads>>
    /\ UNCHANGED isRegisteringRef
    /\ UNCHANGED <<currentPage, RFQFile, BidFile, report, loading, showPaywall, usageLimits, currentUser, usageDoc, trackerInit, run, nextRun>>
    /\ UNCHANGED fetchVars
    /\ UNCHANGED rankVars
    /\ UNCHANGED extractVars

\* lines 833, 841: the callback redirects unless a registration is going on
Redirects(registering) == ~registering

\* lines 828-842: the getDoc of a listener callback settles and the callback
\* goes on: it sets the current user and redirects. The page that leaves
\* HOME unmounts the AuthPage and its isSubmitting.
AuthReadSettles ==
    /\ authReads > 0
    /\ authReads' = authReads - 1
    /\ \E outcome \in UserDocOutcomes :
         /\ currentUser' = [role |-> RoleOf(outcome)]
         /\ IF Redirects(isRegisteringRef)
            THEN /\ currentPage' = (IF outcome = "ADMIN" THEN "ADMIN" ELSE "COMPLIANCE_CHECK")
                 /\ isSubmitting' = FALSE
            ELSE UNCHANGED <<currentPage, isSubmitting>>
    /\ UNCHANGED <<authUser, isRegisteringRef, authCall>>
    /\ UNCHANGED <<RFQFile, BidFile, report, loading, errorMessage, showPaywall, usageLimits, userId, usageDoc, trackerInit, run, nextRun>>
    /\ UNCHANGED fetchVars
    /\ UNCHANGED rankVars
    /\ UNCHANGED extractVars

InitAuth ==
    /\ FetchIdle
    /\ AppIdle
    /\ RankIdle
    /\ ExtractIdle
    /\ AuthIdle

NextAuth ==
    \/ RegisterCall
    \/ RegisterCreated
    \/ RegisterWritten
    \/ RegisterSignedOut
    \/ LoginCall
    \/ LoginSettles
    \/ AuthReadSettles
    \/ handleLogout

SpecAuth == InitAuth /\ [][NextAuth]_vars

----------------------------------------------------------------------------
(* Claims about the session, checked under SpecAuth *)

\* C30: the page is COMPLIANCE_CHECK or ADMIN only while a user is signed
\* in, and so is a current user: with userId null the page is neither and
\* currentUser is null, whatever the order of the listener's callbacks.
SignedInPagesOnlyWhileSignedIn ==
    userId = None =>
        /\ currentPage \notin {"COMPLIANCE_CHECK", "ADMIN"}
        /\ currentUser = None

====
